---- MODULE Spec2Model ----
(***************************************************************************)
(* Model of the BlueprintAI inpainting HTTP service (src/app.py).          *)
(*                                                                         *)
(* The process-wide state is the FastAPI application object: its route     *)
(* table, in registration order, and the lifespan phase.  One request is   *)
(* served per step: the CORS middleware, the router's first-match          *)
(* dispatch, FastAPI's parameter validation and the handler's body with    *)
(* its try/except chain are all part of that step.                         *)
(*                                                                         *)
(* Conventions of the data model                                           *)
(*   - a byte string is a sequence over 0..255;                            *)
(*   - a text in the base64 alphabet is a sequence of alphabet indices     *)
(*     0..63, with 64 for the pad character '=' and 65 for any character   *)
(*     outside the alphabet (a newline, say);                              *)
(*   - an encoded raster image is  magic, width (2 bytes, big endian),     *)
(*     height (2 bytes), one payload byte.  The magic byte tells the       *)
(*     container (255 JPEG, 137 PNG).  This stands for what PIL reads:     *)
(*     a header that identifies the format and size, then pixel data;      *)
(*   - a path is the sequence of its segments after the leading slash:     *)
(*     "/" is <<"">>, "/inpaint/" is <<"inpaint", "">>.                    *)
(***************************************************************************)
EXTENDS Integers, Sequences, FiniteSets, TLC

\* phase and routes are the process-wide state; req and resp are the request
\* being served and its response; failed_before is a history variable that
\* records whether a request served earlier was answered with an error.
VARIABLES phase, routes, req, resp, failed_before

vars == <<phase, routes, req, resp, failed_before>>

(***************************************************************************)
(* Bounds of the explored inputs.                                          *)
(***************************************************************************)
MaxDim == 2

MaxItems == 3

\* Image sizes a client submits: tiny ones, and the sizes the service
\* documentation talks about.
Dims == (1..MaxDim) \cup {300, 512}

Themes == {"", "forest landscape"}

Colors == {"", "green"}

(***************************************************************************)
(* base64 (standard library, called at src/app.py:93, 131, 148, 232)       *)
(***************************************************************************)
PadChar == 64

OtherChar == 65

\* b64encode of one group of 1, 2 or 3 bytes: 4 characters, padded.
B64Group(g) ==
    IF Len(g) = 3
    THEN << g[1] \div 4,
            (g[1] % 4) * 16 + g[2] \div 16,
            (g[2] % 16) * 4 + g[3] \div 64,
            g[3] % 64 >>
    ELSE IF Len(g) = 2
    THEN << g[1] \div 4,
            (g[1] % 4) * 16 + g[2] \div 16,
            (g[2] % 16) * 4,
            PadChar >>
    ELSE << g[1] \div 4, (g[1] % 4) * 16, PadChar, PadChar >>

RECURSIVE B64Encode(_)
B64Encode(bytes) ==
    IF Len(bytes) = 0 THEN << >>
    ELSE IF Len(bytes) <= 3 THEN B64Group(bytes)
    ELSE B64Group(SubSeq(bytes, 1, 3)) \o B64Encode(SubSeq(bytes, 4, Len(bytes)))

\* b64decode(s) without validation, as binascii.a2b_base64 scans it:
\* characters outside the alphabet are skipped, a pad completes a group
\* only at position 2 or 3 and ends the scan, a dangling group is an error.
\* The result is [ok |-> BOOLEAN, bytes |-> byte string].
RECURSIVE B64Scan(_, _, _, _, _, _)
B64Scan(s, i, quad, pads, left, out) ==
    IF i > Len(s)
    THEN [ok |-> (quad = 0), bytes |-> out]
    ELSE LET c == s[i] IN
         IF c = PadChar
         THEN IF quad >= 2 /\ quad + pads + 1 >= 4
              THEN [ok |-> TRUE, bytes |-> out]
              ELSE B64Scan(s, i + 1, quad,
                           IF quad >= 2 THEN pads + 1 ELSE pads, left, out)
         ELSE IF c >= 64
         THEN B64Scan(s, i + 1, quad, pads, left, out)
         ELSE IF quad = 0
         THEN B64Scan(s, i + 1, 1, 0, c, out)
         ELSE IF quad = 1
         THEN B64Scan(s, i + 1, 2, 0, c % 16,
                      Append(out, left * 4 + c \div 16))
         ELSE IF quad = 2
         THEN B64Scan(s, i + 1, 3, 0, c % 4,
                      Append(out, left * 16 + c \div 4))
         ELSE B64Scan(s, i + 1, 0, 0, 0, Append(out, left * 64 + c))

B64Decode(s) == B64Scan(s, 1, 0, 0, 0, << >>)

(***************************************************************************)
(* PIL (imported at src/app.py:4): Image.open(...).convert("RGB") and      *)
(* img.save(buffered, format="JPEG")                                       *)
(***************************************************************************)
JpegMagic == 255

PngMagic == 137

Magics == {JpegMagic, PngMagic}

HeaderLen == 5

EncodeImage(magic, w, h, px) ==
    << magic, w \div 256, w % 256, h \div 256, h % 256, px >>

\* Image.open(io.BytesIO(bytes)).convert("RGB"): the outcome is an image,
\* or the exception the library raises.  Bytes with no recognised header
\* raise UnidentifiedImageError; a recognised header with the pixel data
\* missing raises OSError when convert() loads the data.
ImageOpen(bytes) ==
    IF \/ Len(bytes) < HeaderLen
       \/ bytes[1] \notin Magics
       \/ bytes[2] * 256 + bytes[3] = 0
       \/ bytes[4] * 256 + bytes[5] = 0
    THEN [exc |-> "UnidentifiedImageError", format |-> "", w |-> 0, h |-> 0, px |-> 0]
    ELSE IF Len(bytes) = HeaderLen
    THEN [exc |-> "OSError", format |-> "", w |-> 0, h |-> 0, px |-> 0]
    ELSE [exc |-> "none",
          format |-> IF bytes[1] = JpegMagic THEN "JPEG" ELSE "PNG",
          w |-> bytes[2] * 256 + bytes[3],
          h |-> bytes[4] * 256 + bytes[5],
          px |-> bytes[6]]

\* A variant of the save step that writes the inference canvas (square, sized
\* by the width) instead of the opened image's own size.
SaveJPEGSquare(img) == EncodeImage(JpegMagic, img.w, img.w, img.px)

\* img.save(buffered, format="JPEG"); buffered.getvalue()
SaveJPEG(img) == EncodeImage(JpegMagic, img.w, img.h, img.px)

(***************************************************************************)
(* Requests and responses                                                  *)
(***************************************************************************)
\* body: "none", "form" (multipart), "json_malformed", "json_scalar"
\* (valid JSON that is no object) or "json_object".  data_kind tells what the
\* object holds under "data": "absent", "not_list" or "list".
ReqBase ==
    [method |-> "GET", path |-> <<"">>, preflight |-> FALSE, body |-> "none",
     has_image |-> FALSE, image |-> << >>,
     has_theme |-> FALSE, theme_description |-> "", theme_color |-> "",
     data_kind |-> "absent", data |-> << >>]

NoRequest == [ReqBase EXCEPT !.method = ""]

\* A JSON response.  keys is the set of keys of the body's object; null_body
\* says that the body is the JSON value null instead of an object.
RespBase ==
    [status |-> 200, media |-> "json", keys |-> {}, null_body |-> FALSE,
     image |-> << >>, data |-> << >>, error |-> "",
     detail |-> "", detail_type |-> "none", text |-> "",
     message |-> "", service_status |-> "", requested_path |-> << >>,
     route_table |-> << >>, received |-> "", success |-> FALSE,
     prompt_used |-> "", mask_type |-> ""]

NoResponse == [RespBase EXCEPT !.status = 0, !.media = "none"]

ContentType(r) ==
    IF r.body = "none" THEN ""
    ELSE IF r.body = "form" THEN "multipart/form-data"
    ELSE "application/json"

\* FastAPI's handler for HTTPException: {"detail": detail} with the status.
HttpError(status, detail) ==
    [RespBase EXCEPT !.status = status, !.keys = {"detail"},
                     !.detail = detail, !.detail_type = "str"]

\* FastAPI's handler for RequestValidationError: 422, detail is a list of
\* error objects.
ValidationError ==
    [RespBase EXCEPT !.status = 422, !.keys = {"detail"},
                     !.detail = "validation errors", !.detail_type = "list"]

\* Python's exception classes: which except clause catches which exception.
IsInstance(exc, cls) ==
    \/ exc = cls
    \/ cls = "Exception" /\ exc # "none"
    \/ cls = "OSError" /\ exc = "UnidentifiedImageError"
    \/ cls = "ValueError" /\ exc = "binascii.Error"

Raise(exc, status, detail) ==
    [exc |-> exc, status |-> status, detail |-> detail, body |-> RespBase]

Return(body) == [exc |-> "none", status |-> 200, detail |-> "", body |-> body]

\* [{"path": route.path, "methods": route.methods} for route in app.routes]
RouteTable(rts) == [i \in 1..Len(rts) |-> [path |-> rts[i].path, methods |-> rts[i].methods]]

(***************************************************************************)
(* Handlers                                                                *)
(***************************************************************************)
\* The model handle kept by the lifespan: the startup code loads nothing and
\* stores nothing, so no handle is present at any time.
ModelLoaded == FALSE

root ==
    [RespBase EXCEPT !.keys = {"message", "endpoints", "status"},
                     !.message = "BlueprintAI Inpainting API",
                     !.service_status = "online"]

\* Lines 79-88: the inner try of inpaint.
inpaint_open(image_content) ==
    LET img == ImageOpen(image_content) IN
    IF IsInstance(img.exc, "UnidentifiedImageError")
    THEN Raise("HTTPException", 400, "Invalid image format")
    ELSE IF IsInstance(img.exc, "Exception")
    THEN Raise("HTTPException", 400, "Invalid image file")
    ELSE Return([RespBase EXCEPT !.keys = {"image"},
                                 !.image = B64Encode(SaveJPEG(img))])

\* Lines 63-95: the body of the outer try of inpaint.
inpaint_try(r) ==
    IF Len(r.image) = 0
    THEN Raise("HTTPException", 400, "Empty image file")
    ELSE inpaint_open(r.image)

\* Lines 62-101: the outer try with its except clauses; what leaves the
\* handler is a return value or an HTTPException.
inpaint(r) ==
    LET t == inpaint_try(r) IN
    IF t.exc = "none" THEN t.body
    ELSE IF IsInstance(t.exc, "UnidentifiedImageError")
    THEN HttpError(400, "Invalid image file")
    ELSE IF IsInstance(t.exc, "Exception")
    THEN HttpError(500, "Error processing image")
    ELSE HttpError(t.status, t.detail)

test(r) ==
    [RespBase EXCEPT !.keys = {"received", "success"},
                     !.received = r.data_kind, !.success = TRUE]

\* A variant of the inner try that hands the base64 text itself to
\* Image.open, without decoding it.
predict_decode_raw(image_b64) ==
    IF image_b64.type # "str"
    THEN Raise("TypeError", 0, "")
    ELSE LET img == ImageOpen(image_b64.chars) IN
         IF img.exc # "none" THEN Raise(img.exc, 0, "")
         ELSE Return([RespBase EXCEPT !.keys = {"data"},
                                      !.data = <<B64Encode(SaveJPEG(img))>>])

\* Lines 129-143: the inner try of predict.
predict_decode(image_b64) ==
    IF image_b64.type # "str"
    THEN Raise("TypeError", 0, "")
    ELSE LET dec == B64Decode(image_b64.chars) IN
         IF ~dec.ok THEN Raise("binascii.Error", 0, "")
         ELSE LET img == ImageOpen(dec.bytes) IN
              IF img.exc # "none" THEN Raise(img.exc, 0, "")
              ELSE Return([RespBase EXCEPT !.keys = {"data"},
                                           !.data = <<B64Encode(SaveJPEG(img))>>])

\* Lines 114-150: the body of the outer try of predict.
predict_try(r) ==
    IF Len(r.data) < 3
    THEN Return([RespBase EXCEPT !.keys = {"error"},
                                 !.error = "Missing required data"])
    ELSE IF r.data[1].type = "int"
    THEN Raise("TypeError", 0, "")
    ELSE LET t == predict_decode(r.data[1]) IN
         IF IsInstance(t.exc, "Exception")
         THEN Return([RespBase EXCEPT !.keys = {"error"},
                                      !.error = "Invalid image data"])
         ELSE t

\* Lines 113-153.
predict(r) ==
    LET t == predict_try(r) IN
    IF IsInstance(t.exc, "Exception")
    THEN [RespBase EXCEPT !.keys = {"error"}, !.error = "Error processing request"]
    ELSE t.body

\* Lines 157-199.  A PUT or DELETE request runs off the end of the function:
\* the handler returns None, which is sent as the JSON value null.
catch_all(r, rts) ==
    IF r.method = "GET"
    THEN [RespBase EXCEPT !.keys = {"message", "requested_path", "available_routes"},
                          !.message = "Route not found",
                          !.requested_path = r.path,
                          !.route_table = RouteTable(rts)]
    ELSE IF r.method = "POST"
    THEN IF ContentType(r) = "application/json" /\ r.body # "json_malformed"
         THEN [RespBase EXCEPT !.keys = {"message", "requested_path",
                                         "content_type", "json_body"},
                               !.message = "Route not found",
                               !.requested_path = r.path,
                               !.received = r.data_kind]
         ELSE [RespBase EXCEPT !.keys = {"message", "requested_path",
                                         "content_type", "body_size"},
                               !.message = "Route not found",
                               !.requested_path = r.path]
    ELSE [RespBase EXCEPT !.null_body = TRUE]

debug(r, rts) ==
    [RespBase EXCEPT !.keys = {"client", "headers", "base_url", "app_routes"},
                     !.route_table = RouteTable(rts)]

TestImageWidth == 300

TestImageHeight == 200

test_image ==
    LET img == [exc |-> "none", format |-> "", w |-> TestImageWidth,
                h |-> TestImageHeight, px |-> 100]
    IN [RespBase EXCEPT !.keys = {"image"}, !.image = B64Encode(SaveJPEG(img))]

(***************************************************************************)
(* The application: route table, dispatch, validation                      *)
(***************************************************************************)
Route(path, methods, endpoint, is_path_param) ==
    [path |-> path, methods |-> methods, endpoint |-> endpoint,
     is_path_param |-> is_path_param]

\* The routes the decorators register, in the order of the source file.
Routes0 ==
    << Route(<<"">>, {"GET"}, "root", FALSE),
       Route(<<"inpaint", "">>, {"POST"}, "inpaint", FALSE),
       Route(<<"test">>, {"POST"}, "test", FALSE),
       Route(<<"api", "predict">>, {"POST"}, "predict", FALSE),
       Route(<<"{path_name:path}">>, {"GET", "POST", "PUT", "DELETE"}, "catch_all", TRUE),
       Route(<<"debug">>, {"GET"}, "debug", FALSE),
       Route(<<"test-image">>, {"GET"}, "test_image", FALSE) >>

\* Route.matches: the path regex, then the method.  A {name:path} parameter
\* matches any remainder of the path.
Match(route, method, path) ==
    IF ~(route.is_path_param \/ route.path = path) THEN "NONE"
    ELSE IF method \in route.methods THEN "FULL"
    ELSE "PARTIAL"

Min(S) == CHOOSE x \in S : \A y \in S : x <= y

\* Router.app: the first route that matches fully handles the request; with
\* no full match the first partial match does (and answers 405); with no match
\* at all the router answers 404.  The result is an index into the table, 0
\* for not found, and whether the match was full.
Dispatch(rts, method, path) ==
    LET full == {i \in 1..Len(rts) : Match(rts[i], method, path) = "FULL"}
        partial == {i \in 1..Len(rts) : Match(rts[i], method, path) = "PARTIAL"}
    IN IF full # {} THEN [route |-> Min(full), full |-> TRUE]
       ELSE IF partial # {} THEN [route |-> Min(partial), full |-> FALSE]
       ELSE [route |-> 0, full |-> FALSE]

\* The endpoint a request reaches, "" when it reaches none.
Endpoint(rts, r) ==
    LET d == Dispatch(rts, r.method, r.path) IN
    IF d.full THEN rts[d.route].endpoint ELSE ""

\* FastAPI's request validation against the handler's signature, then the
\* handler.
Call(endpoint, r, rts) ==
    IF endpoint = "root" THEN root
    ELSE IF endpoint = "inpaint"
    THEN IF r.body = "form" /\ r.has_image /\ r.has_theme
         THEN inpaint(r) ELSE ValidationError
    ELSE IF endpoint = "test"
    THEN IF r.body = "json_object" THEN test(r) ELSE ValidationError
    ELSE IF endpoint = "predict"
    THEN IF r.body = "json_object" /\ r.data_kind = "list"
         THEN predict(r) ELSE ValidationError
    ELSE IF endpoint = "catch_all" THEN catch_all(r, rts)
    ELSE IF endpoint = "debug" THEN debug(r, rts)
    ELSE test_image

\* The router behind the middleware.
Router(r, rts) ==
    LET d == Dispatch(rts, r.method, r.path) IN
    IF d.route = 0 THEN HttpError(404, "Not Found")
    ELSE IF ~d.full THEN HttpError(405, "Method Not Allowed")
    ELSE Call(rts[d.route].endpoint, r, rts)

\* CORSMiddleware with every origin, method and header allowed: it answers
\* a preflight request itself and passes every other request on.
App(r, rts) ==
    IF r.method = "OPTIONS" /\ r.preflight
    THEN [RespBase EXCEPT !.media = "text", !.text = "OK"]
    ELSE Router(r, rts)

(***************************************************************************)
(* Inputs                                                                  *)
(***************************************************************************)
Methods == {"GET", "POST", "PUT", "DELETE", "PATCH", "OPTIONS"}

NamedPaths == {Routes0[i].path : i \in {1, 2, 3, 4, 6, 7}}

Paths == NamedPaths \cup {<<"inpaint">>, <<"api", "v1", "predict">>}

ValidImages == {EncodeImage(m, w, h, 100) : m \in Magics, w \in Dims, h \in Dims}

SmallImages == {EncodeImage(m, 1, MaxDim, 100) : m \in Magics}

\* Uploads: every valid image, every truncation of one (the empty upload
\* included), a valid image followed by a stray byte, and plain text.
ImageBytes ==
    ValidImages
    \cup {SubSeq(e, 1, k) : e \in ValidImages, k \in 0..HeaderLen}
    \cup {Append(e, 0) : e \in SmallImages}
    \cup {<<104, 105>>, <<104, 101, 108, 108, 111, 33, 10>>}

StrItem(chars) == [type |-> "str", chars |-> chars]

OtherItems == {[type |-> "int", chars |-> << >>], [type |-> "list", chars |-> << >>]}

\* First items of a predict call: the base64 text of every upload, the same
\* text with its last character lost or with a line break in front, and
\* items that are no strings.
FirstItems ==
    {StrItem(B64Encode(b)) : b \in ImageBytes}
    \cup {StrItem(SubSeq(B64Encode(b), 1, Len(B64Encode(b)) - 1)) : b \in SmallImages}
    \cup {StrItem(<<OtherChar>> \o B64Encode(b)) : b \in SmallImages}
    \cup OtherItems

RestItems == {StrItem(<< >>), [type |-> "int", chars |-> << >>]}

\* The lists a predict call carries: short ones, lists of three or more
\* items with string themes, and lists of three with themes that are no
\* strings.
DataLists ==
    UNION {[1..n -> RestItems] : n \in 0..2}
    \cup {<<f>> \o [i \in 1..(n - 1) |-> StrItem(<< >>)] : f \in FirstItems, n \in 3..MaxItems}
    \cup {<<StrItem(B64Encode(b)), x, y>> : b \in SmallImages, x \in RestItems, y \in RestItems}

(***************************************************************************)
(* Behaviour                                                               *)
(***************************************************************************)
Init ==
    /\ phase = "created"
    /\ routes = Routes0
    /\ req = NoRequest
    /\ resp = NoResponse
    /\ failed_before = FALSE

\* lifespan, before the yield: logs and loads nothing.
Startup ==
    /\ phase = "created"
    /\ phase' = "serving"
    /\ UNCHANGED <<routes, req, resp, failed_before>>

\* lifespan, after the yield.
Shutdown ==
    /\ phase = "serving"
    /\ phase' = "stopped"
    /\ UNCHANGED <<routes, req, resp, failed_before>>

\* A variant of Serve in which handling a request also drops the route that
\* handled it from the application's table.
ServeAndForget(r) ==
    /\ phase = "serving"
    /\ req' = r
    /\ resp' = App(r, routes)
    /\ failed_before' = (failed_before \/ resp.status >= 400)
    /\ routes' = LET d == Dispatch(routes, r.method, r.path)
                 IN IF d.full /\ resp'.status >= 400
                    THEN [i \in 1..(Len(routes) - 1) |->
                              IF i < d.route THEN routes[i] ELSE routes[i + 1]]
                    ELSE routes
    /\ UNCHANGED phase

\* One request served from arrival to response.  No handler assigns to a
\* module-level name or to the application object.
Serve(r) ==
    /\ phase = "serving"
    /\ req' = r
    /\ resp' = App(r, routes)
    /\ failed_before' = (failed_before \/ resp.status >= 400)
    /\ UNCHANGED <<phase, routes>>

\* POST /inpaint/ with a multipart form.
ServeUpload ==
    \E img \in ImageBytes, td \in Themes, tc \in Colors :
        Serve([ReqBase EXCEPT !.method = "POST", !.path = <<"inpaint", "">>,
                              !.body = "form", !.has_image = TRUE, !.image = img,
                              !.has_theme = TRUE, !.theme_description = td,
                              !.theme_color = tc])

\* POST /api/predict with a JSON object holding a list under "data".
ServePredict ==
    \E d \in DataLists :
        Serve([ReqBase EXCEPT !.method = "POST", !.path = <<"api", "predict">>,
                              !.body = "json_object", !.data_kind = "list", !.data = d])

\* Any method on any path, with any kind of body.
ServeAny ==
    \E m \in Methods, p \in Paths, pf \in BOOLEAN,
       b \in {"none", "form", "json_malformed", "json_scalar", "json_object"},
       dk \in {"absent", "not_list", "list"}, hi \in BOOLEAN, ht \in BOOLEAN :
        /\ dk # "absent" => b = "json_object"
        /\ (hi \/ ht) => b = "form"
        /\ pf => m = "OPTIONS"
        /\ b # "none" => m \in {"POST", "PUT"}
        /\ Serve([ReqBase EXCEPT !.method = m, !.path = p, !.preflight = pf,
                                 !.body = b, !.data_kind = dk,
                                 !.has_image = hi, !.has_theme = ht])

Next == Startup \/ Shutdown \/ ServeUpload \/ ServePredict \/ ServeAny

Spec == Init /\ [][Next]_vars

(***************************************************************************)
(* Properties                                                              *)
(***************************************************************************)
Served == req.method # ""

IsUpload(r) ==
    /\ r.method = "POST" /\ r.path = <<"inpaint", "">>
    /\ r.body = "form" /\ r.has_image /\ r.has_theme

IsPredictPost(r) == r.method = "POST" /\ r.path = <<"api", "predict">>

\* C1: a POST /inpaint/ upload whose bytes are empty or are no recognised
\* raster image is answered with a 400-class status, never with 500.
C1_BadImageIs400 ==
    (IsUpload(req) /\ ImageOpen(req.image).exc = "UnidentifiedImageError")
        => resp.status \in 400..499

\* C2: every POST /api/predict request, whatever its body, is answered with
\* status 200.
C2_PredictAlways200 ==
    IsPredictPost(req) => resp.status = 200

\* The named routes of the interface table: every route but the catch-all.
NamedRoutes == {i \in 1..Len(routes) : ~routes[i].is_path_param}

\* C3: a request that matches a named route in method and path is handled by
\* that route's own handler, not by the catch-all route.
C3_NamedRouteNotShadowed ==
    \A i \in NamedRoutes :
        (Served /\ ~(req.method = "OPTIONS" /\ req.preflight)
                /\ Match(routes[i], req.method, req.path) = "FULL")
            => /\ Endpoint(routes, req) = routes[i].endpoint
               /\ routes[i].endpoint = "debug" => "app_routes" \in resp.keys
               /\ routes[i].endpoint = "test_image" => "image" \in resp.keys

Prompt(theme_description, theme_color) ==
    theme_description \o " with " \o theme_color \o " color, high quality, detailed"

\* C5: every 200 response of POST /inpaint/ carries image, prompt_used (the
\* exact prompt built from the submitted themes) and mask_type.
C5_PromptEchoed ==
    (IsUpload(req) /\ resp.status = 200)
        => /\ {"image", "prompt_used", "mask_type"} \subseteq resp.keys
           /\ resp.prompt_used = Prompt(req.theme_description, req.theme_color)

C7_CatchAllEchoes ==
    (Served /\ \A i \in NamedRoutes : Match(routes[i], req.method, req.path) # "FULL")
        => /\ resp.status = 200
           /\ "requested_path" \in resp.keys
           /\ resp.requested_path = req.path

UploadOf(bytes) ==
    [ReqBase EXCEPT !.method = "POST", !.path = <<"inpaint", "">>,
                    !.body = "form", !.has_image = TRUE, !.image = bytes,
                    !.has_theme = TRUE]

PredictOf(bytes) ==
    [ReqBase EXCEPT !.method = "POST", !.path = <<"api", "predict">>,
                    !.body = "json_object", !.data_kind = "list",
                    !.data = <<StrItem(B64Encode(bytes)), StrItem(<< >>), StrItem(<< >>)>>]

\* The two endpoints agree on a pair of responses: an HTTP error status on
\* one side exactly when the other side's body holds error, and a 200 with
\* image exactly when the other side's body holds data.
SameClass(up, pr) ==
    /\ (up.status >= 400) <=> ("error" \in pr.keys)
    /\ (up.status = 200 /\ "image" \in up.keys) <=> ("data" \in pr.keys)

\* C8: for the same image bytes, sent raw to POST /inpaint/ and base64
\* encoded as the first of three items to POST /api/predict, the two
\* endpoints classify the input alike.
C8_SameClassification ==
    /\ IsUpload(req) => SameClass(resp, App(PredictOf(req.image), routes))
    /\ \A b \in ImageBytes :
          (IsPredictPost(req) /\ req.data_kind = "list" /\ req.data = PredictOf(b).data)
              => SameClass(App(UploadOf(b), routes), resp)

\* A predict call carrying a truncated image was answered with error, and so
\* is the upload of the same bytes.
C8_Witness ==
    \E b \in ImageBytes :
        /\ ImageOpen(b).exc = "OSError"
        /\ req = PredictOf(b)
        /\ "error" \in resp.keys
        /\ App(UploadOf(b), routes).status >= 400

\* C9: every POST /api/predict response holds exactly one of data and error,
\* data being a list of one image; every non-200 POST /inpaint/ response
\* holds a detail string and no image.
C9_NoPartialOutput ==
    /\ IsPredictPost(req)
          => /\ ("data" \in resp.keys) # ("error" \in resp.keys)
             /\ "data" \in resp.keys => Len(resp.data) = 1
             /\ Len(req.data) < 3 => (resp.keys = {"error"} /\ resp.error = "Missing required data")
    /\ (req.method = "POST" /\ req.path = <<"inpaint", "">> /\ resp.status # 200)
          => /\ "detail" \in resp.keys
             /\ resp.detail_type = "str"
             /\ "image" \notin resp.keys

====
